---- MODULE Spec2Model ----
(***************************************************************************)
(* Model of t/cli.c of picotls: the command-line harness that drives the   *)
(* TLS engine over a socket and the terminal.                              *)
(*                                                                         *)
(* The process starts in main with some command line and goes on to        *)
(* run_server or run_client.  A connection session (handle_connection) is  *)
(* modelled statement by statement: every system call (read, write,        *)
(* select, accept, close) and every engine                                 *)
(* call (ptls_handshake, ptls_receive, ptls_send) is one action.  The TLS  *)
(* engine and the operating system are the environment: their results are  *)
(* chosen nondeterministically within the contract of the call.            *)
(*                                                                         *)
(* Bytes.  The harness never branches on the value of a byte, so the byte  *)
(* streams are tagged by position: the i-th byte the socket delivers in a  *)
(* session is the number i, the i-th byte of standard input is -i, and the *)
(* bytes an engine call produces are 1..k.  0 is an uninitialised byte.    *)
(* A dropped, duplicated or reordered byte then shows in the value.        *)
(***************************************************************************)
EXTENDS Integers, Sequences, FiniteSets, TLC

\* ---- bounds of the model ----
BufSz == 3        \* capacity of rbuf (sizeof(rbuf) is 1024 in the source)
MaxOut == 2       \* most bytes one engine call appends to its output buffer
MaxSock == 3      \* bytes the peer sends over the socket in one session
MaxStdin == 2     \* bytes standard input delivers to the process
MaxHsSteps == 1   \* handshake steps that may answer "in progress"
MaxOpts == 2      \* options on the command line
MaxSessions == 1  \* connections the server accepts

VARIABLES
    pc,          \* position in the code
    errno,       \* the C errno, as far as the code tests it: "EINTR" or "OTHER"
                 \* (any other value, 0 included)
    tlsFreed,    \* number of ptls_free calls on the session's engine
    wbufDisposed,\* number of ptls_buffer_dispose calls on wbuf
    usedAfter,   \* TRUE once the engine or wbuf is used after its release
    wbuf,        \* wbuf.base[0 .. wbuf.off): the outbound buffer
    rbuf,        \* rbuf[1..BufSz]: the scratch buffer
    roff,        \* roff of handle_connection (= *pending_input_len)
    rret,        \* rret of handle_connection / run_handshake (ssize_t)
    readfds,     \* the fd_set: the descriptors set in it
    wa,          \* write_all frame: [fd, data (the suffix data..data+len), site]
    waRes,       \* value the last write_all returned
    dp,          \* decrypt_and_print frame: [input (the rest of the span), site]
    dpRes,       \* value the last decrypt_and_print returned
    decryptbuf,  \* decryptbuf.base[0 .. decryptbuf.off)
    sockPos,     \* bytes read from the socket so far
    stdinPos,    \* bytes read from standard input so far
    hsSteps,     \* handshake steps that answered "in progress" (0 once the
                 \* handshake is over)
    h,           \* history record (observations only, never read by the code)
    proc         \* the process around the session: main, run_server, run_client

vars == <<pc, errno, tlsFreed, wbufDisposed, usedAfter, wbuf, rbuf, roff, rret,
          readfds, wa, waRes, dp, dpRes, decryptbuf, sockPos, stdinPos, hsSteps, h,
          proc>>

\* ---- helpers ----
Min(a, b) == IF a < b THEN a ELSE b

\* the bytes a+1 .. a+n of a stream tagged by position
Serial(a, n) == [i \in 1..n |-> a + i]

\* the bytes of standard input after position a
StdinBytes(a, n) == [i \in 1..n |-> 0 - (a + i)]

Drop(s, n) == SubSeq(s, n + 1, Len(s))

IsPrefix(s, t) == Len(s) <= Len(t) /\ SubSeq(t, 1, Len(s)) = s

\* rbuf after a read stored the bytes of s at its start
Store(buf, s) == [i \in 1..BufSz |-> IF i <= Len(s) THEN s[i] ELSE buf[i]]

\* the first n bytes of rbuf as a sequence
Take(buf, n) == [i \in 1..n |-> buf[i]]

\* an uninitialised array
Garbage == [i \in 1..BufSz |-> 0]

NoFrame == [fd |-> "none", data |-> <<>>, site |-> "none"]
NoPump == [input |-> <<>>, site |-> "none"]
Both == {"stdin", "sock"}

H0 ==
    [ waFd |-> "none",      \* descriptor of the current write_all call
      waOrig |-> <<>>,      \* data[0..len) of the current write_all call
      waAcc |-> <<>>,       \* bytes the descriptor accepted in that call
      waWrites |-> 0,       \* writes that accepted bytes in that call
      dpSpan |-> <<>>,      \* the span of the current pump run
      dpUsed |-> <<>>,      \* what the unsealing calls of the run consumed
      dpCalls |-> 0,        \* unsealing calls of the current pump run
      dpProduced |-> <<>>,  \* plaintext the last unsealing call produced
      dpEngineErr |-> FALSE,\* an unsealing call of the run returned non-zero
      dpWriteErr |-> FALSE, \* a write to stdout failed in the run
      dpLeft |-> 0,         \* decryptbuf.off when the pump returned
      hsR |-> 0,            \* byte count of the last handshake read
      hsC |-> 0,            \* consumed length of the last handshake step
      hsLast |-> <<>>,      \* the bytes of the last handshake read
      appStart |-> 0,       \* socket position where the leftover begins
      sealLog |-> <<>>,     \* plaintext passed to ptls_send, concatenated
      unsealLog |-> <<>>,   \* ciphertext consumed by ptls_receive, concatenated
      stdinStart |-> 0,     \* standard-input position when the session began
      waitFailed |-> "none",\* errno of the select call that has just failed
      leftoverRuns |-> 0,   \* pump runs made on the handshake leftover
      inputDone |-> FALSE,  \* this wake has completed its standard-input branch
      appended |-> <<>>,    \* what the last engine call appended to wbuf
      closedBy |-> "none" ] \* which statement jumped to Exit

\* the caller has tested the result of write_all / decrypt_and_print
ClearWrite(hist) ==
    [hist EXCEPT !.waFd = "none", !.waOrig = <<>>, !.waAcc = <<>>, !.waWrites = 0,
                 !.appended = <<>>]
ClearPump(hist) ==
    [hist EXCEPT !.dpSpan = <<>>, !.dpUsed = <<>>, !.dpCalls = 0, !.dpProduced = <<>>,
                 !.dpEngineErr = FALSE, !.dpWriteErr = FALSE, !.dpLeft = 0]

\* what getopt can meet on the command line: -c / -k with a file that loads,
\* -c / -k with a file that cannot be opened or holds no certificate / key,
\* and an option that is not in "c:k:"
Opts == {"c_ok", "c_bad", "k_ok", "k_bad", "other"}

RECURSIVE ArgvOfLen(_)
ArgvOfLen(n) ==
    IF n = 0 THEN {<<>>}
    ELSE {Append(a, o) : a \in ArgvOfLen(n - 1), o \in Opts}

Argvs == UNION {ArgvOfLen(n) : n \in 0..MaxOpts}

\* the option letters present on a command line
Given(argv) ==
    {l \in {"c", "k"} :
        \E i \in 1..Len(argv) : argv[i] \in {l \o "_ok", l \o "_bad"}}

P0 ==
    [ argv |-> <<>>,        \* the options getopt has not returned yet
      given |-> {},         \* option letters on the command line (observation)
      certs |-> FALSE,      \* certs != NULL
      pkey |-> FALSE,       \* pkey != NULL
      registered |-> FALSE, \* ptls_openssl_context_register_server was called
      sockets |-> 0,        \* socket(2) calls made (observation)
      fd |-> "none",        \* conn_fd / fd: "none", "open", "closed", "invalid"
      closes |-> 0,         \* close(2) calls on the session's descriptor
      released |-> FALSE,   \* engine and wbuf were released at the last close
      sessions |-> 0,       \* handle_connection calls so far
      status |-> "running" ]\* "running", "exit0", "exit1"

\* main is entered with some command line; no session exists yet
Init ==
    /\ pc = "main"
    /\ errno = "OTHER"
    /\ tlsFreed = 0
    /\ wbufDisposed = 0
    /\ usedAfter = FALSE
    /\ wbuf = <<>>
    /\ rbuf = Garbage
    /\ roff = 0
    /\ rret = 0
    /\ readfds = {}
    /\ wa = NoFrame
    /\ waRes = 0
    /\ dp = NoPump
    /\ dpRes = 0
    /\ decryptbuf = <<>>
    /\ sockPos = 0
    /\ stdinPos = 0
    /\ hsSteps = 0
    /\ h = H0
    /\ \E a \in Argvs : proc = [P0 EXCEPT !.argv = a, !.given = Given(a)]

\* the engine or the outbound buffer is being used: record a use after release
Touch == usedAfter \/ tlsFreed > 0 \/ wbufDisposed > 0

\* goto Exit (or a failure return that the caller turns into goto Exit)
GotoExit(reason, hist) ==
    /\ pc' = "hc_exit"
    /\ h' = [hist EXCEPT !.closedBy = reason]

\* ---------------------------------------------------------------- write_all

\* write_all(fd, data, len) is entered
WriteAllCall(fd, data, site, hist) ==
    /\ pc' = "wa"
    /\ wa' = [fd |-> fd, data |-> data, site |-> site]
    /\ h' = [hist EXCEPT !.waFd = fd, !.waOrig = data, !.waAcc = <<>>,
                         !.waWrites = 0]

\* faulty variant: len -= wret without data += wret
AdvanceLenOnly(data, wret) == SubSeq(data, 1, Len(data) - wret)

\* data += wret; len -= wret
Advance(data, wret) == Drop(data, wret)

\* write(fd, data, len) accepted wret bytes, 1 <= wret <= len
WriteAllWrite ==
    /\ pc = "wa"
    /\ Len(wa.data) # 0
    /\ \E wret \in 1..Len(wa.data) :
          /\ wa' = [wa EXCEPT !.data = Advance(wa.data, wret)]
          /\ h' = [h EXCEPT !.waAcc = @ \o SubSeq(wa.data, 1, wret),
                            !.waWrites = @ + 1]
    /\ UNCHANGED <<pc, errno, tlsFreed, wbufDisposed, usedAfter, wbuf, rbuf, roff,
                   rret, readfds, waRes, dp, dpRes, decryptbuf, sockPos, stdinPos,
                   hsSteps>>
    /\ UNCHANGED proc

\* write returned -1 with errno == EINTR: the inner loop calls it again
WriteAllEintr ==
    /\ pc = "wa"
    /\ Len(wa.data) # 0
    /\ errno' = "EINTR"
    /\ UNCHANGED <<pc, tlsFreed, wbufDisposed, usedAfter, wbuf, rbuf, roff, rret,
                   readfds, wa, waRes, dp, dpRes, decryptbuf, sockPos, stdinPos,
                   hsSteps, h>>
    /\ UNCHANGED proc

\* write returned 0, or -1 with another error: wret <= 0, return -1
WriteAllFail ==
    /\ pc = "wa"
    /\ Len(wa.data) # 0
    /\ \E e \in {"zero", "error"} :
          errno' = IF e = "error" THEN "OTHER" ELSE errno
    /\ waRes' = 0 - 1
    /\ pc' = wa.site
    /\ wa' = NoFrame
    /\ UNCHANGED <<tlsFreed, wbufDisposed, usedAfter, wbuf, rbuf, roff, rret,
                   readfds, dp, dpRes, decryptbuf, sockPos, stdinPos, hsSteps, h>>
    /\ UNCHANGED proc

\* len == 0: return 0
WriteAllDone ==
    /\ pc = "wa"
    /\ Len(wa.data) = 0
    /\ waRes' = 0
    /\ pc' = wa.site
    /\ wa' = NoFrame
    /\ UNCHANGED <<errno, tlsFreed, wbufDisposed, usedAfter, wbuf, rbuf, roff, rret,
                   readfds, dp, dpRes, decryptbuf, sockPos, stdinPos, hsSteps, h>>
    /\ UNCHANGED proc

\* ------------------------------------------------------------ run_handshake

\* ptls_new, ptls_buffer_init, roff = sizeof(rbuf), then run_handshake's entry:
\* pending_input_bufsz = *pending_input_len; rret = 0; *pending_input_len = 0
HcStart ==
    /\ pc = "hc_start"
    /\ pc' = "hs_step"
    /\ wbuf' = <<>>
    /\ roff' = 0
    /\ rret' = 0
    /\ UNCHANGED <<errno, tlsFreed, wbufDisposed, usedAfter, rbuf, readfds, wa,
                   waRes, dp, dpRes, decryptbuf, sockPos, stdinPos, hsSteps, h>>
    /\ UNCHANGED proc

\* the statuses ptls_handshake may return on this step
HandshakeStatuses ==
    {"ok", "error"} \cup (IF hsSteps < MaxHsSteps THEN {"in_progress"} ELSE {})

\* ret = ptls_handshake(tls, wbuf, pending_input, pending_input_len): the
\* engine consumes c <= *pending_input_len bytes, stores c in
\* *pending_input_len and appends k bytes to wbuf
HandshakeStep ==
    /\ pc = "hs_step"
    /\ usedAfter' = Touch
    /\ \E ret \in HandshakeStatuses, c \in 0..roff, k \in 0..MaxOut :
          LET out == wbuf \o Serial(Len(wbuf), k)
              hist == [h EXCEPT !.hsC = c, !.appended = Serial(Len(wbuf), k)]
          IN /\ wbuf' = out
             /\ roff' = c
             /\ CASE ret = "in_progress" ->
                       /\ WriteAllCall("sock", out, "hs_after_write", hist)
                       /\ hsSteps' = hsSteps + 1
                  [] ret = "ok" ->
                       /\ pc' = "hs_done"
                       /\ h' = hist
                       /\ UNCHANGED <<wa, hsSteps>>
                  [] OTHER ->
                       /\ GotoExit("handshake", hist)
                       /\ UNCHANGED <<wa, hsSteps>>
    /\ UNCHANGED <<errno, tlsFreed, wbufDisposed, rbuf, rret, readfds, waRes, dp,
                   dpRes, decryptbuf, sockPos, stdinPos>>
    /\ UNCHANGED proc

\* faulty variant: the buffer keeps the bytes that were written
HsAfterWriteNoReset ==
    /\ pc = "hs_after_write"
    /\ usedAfter' = Touch
    /\ IF waRes # 0
          THEN GotoExit("hs_write", ClearWrite(h))
          ELSE pc' = "hs_read" /\ h' = ClearWrite(h)
    /\ UNCHANGED <<errno, tlsFreed, wbufDisposed, wbuf, rbuf, roff, rret, readfds, wa,
                   waRes, dp, dpRes, decryptbuf, sockPos, stdinPos, hsSteps>>
    /\ UNCHANGED proc

\* if (write_all(fd, wbuf->base, wbuf->off) != 0) return -1; wbuf->off = 0
HsAfterWrite ==
    /\ pc = "hs_after_write"
    /\ usedAfter' = Touch
    /\ IF waRes # 0
          THEN GotoExit("hs_write", ClearWrite(h)) /\ UNCHANGED wbuf
          ELSE pc' = "hs_read" /\ wbuf' = <<>> /\ h' = ClearWrite(h)
    /\ UNCHANGED <<errno, tlsFreed, wbufDisposed, rbuf, roff, rret, readfds, wa,
                   waRes, dp, dpRes, decryptbuf, sockPos, stdinPos, hsSteps>>
    /\ UNCHANGED proc

\* read(fd, pending_input, pending_input_bufsz) returned n > 0:
\* *pending_input_len = rret
HsRead ==
    /\ pc = "hs_read"
    /\ \E n \in 1..Min(BufSz, MaxSock - sockPos) :
          /\ rbuf' = Store(rbuf, Serial(sockPos, n))
          /\ sockPos' = sockPos + n
          /\ rret' = n
          /\ roff' = n
          /\ h' = [h EXCEPT !.hsR = n, !.hsLast = Serial(sockPos, n)]
    /\ pc' = "hs_step"
    /\ UNCHANGED <<errno, tlsFreed, wbufDisposed, usedAfter, wbuf, readfds, wa,
                   waRes, dp, dpRes, decryptbuf, stdinPos, hsSteps>>
    /\ UNCHANGED proc

\* the read returned -1 with errno == EINTR: the inner loop reads again
HsReadEintr ==
    /\ pc = "hs_read"
    /\ errno' = "EINTR"
    /\ rret' = 0 - 1
    /\ UNCHANGED <<pc, tlsFreed, wbufDisposed, usedAfter, wbuf, rbuf, roff, readfds,
                   wa, waRes, dp, dpRes, decryptbuf, sockPos, stdinPos, hsSteps, h>>
    /\ UNCHANGED proc

\* the read returned 0, or -1 with another error: rret <= 0, return -1
HsReadFail ==
    /\ pc = "hs_read"
    /\ \E r \in {0, 0 - 1} :
          /\ rret' = r
          /\ errno' = IF r < 0 THEN "OTHER" ELSE errno
    /\ GotoExit("hs_read", h)
    /\ UNCHANGED <<tlsFreed, wbufDisposed, usedAfter, wbuf, rbuf, roff, readfds, wa,
                   waRes, dp, dpRes, decryptbuf, sockPos, stdinPos, hsSteps>>
    /\ UNCHANGED proc

\* faulty variant: the leftover is left where the engine stopped
LeftoverUnshifted(buf, r, c) == buf

\* if (rret != *pending_input_len)
\*     memmove(pending_input, pending_input + *pending_input_len,
\*             rret - *pending_input_len)
Leftover(buf, r, c) ==
    IF r # c
       THEN [i \in 1..BufSz |-> IF i <= r - c THEN buf[i + c] ELSE buf[i]]
       ELSE buf

\* *pending_input_len = rret - *pending_input_len
LeftoverLen(r, c) == r - c

\* ret == 0: shift the leftover to the start of the buffer, report its length
HsDone ==
    /\ pc = "hs_done"
    /\ rbuf' = Leftover(rbuf, rret, roff)
    /\ roff' = LeftoverLen(rret, roff)
    /\ h' = [h EXCEPT !.appStart = sockPos - (h.hsR - h.hsC)]
    /\ pc' = "hc_flush"
    /\ hsSteps' = 0
    /\ UNCHANGED <<errno, tlsFreed, wbufDisposed, usedAfter, wbuf, rret, readfds, wa,
                   waRes, dp, dpRes, decryptbuf, sockPos, stdinPos>>
    /\ UNCHANGED proc

\* -------------------------------------------------------- decrypt_and_print

\* decrypt_and_print(tls, input, inlen) is entered: ptls_buffer_init(&decryptbuf)
PumpCall(span, site, hist) ==
    /\ pc' = "dp"
    /\ dp' = [input |-> span, site |-> site]
    /\ decryptbuf' = <<>>
    /\ h' = [ClearPump(hist) EXCEPT !.dpSpan = span]

\* decrypt_and_print returns res; its locals die with the frame
PumpReturn(res, hist) ==
    /\ dpRes' = res
    /\ pc' = dp.site
    /\ dp' = NoPump
    /\ decryptbuf' = <<>>
    /\ h' = hist

\* while (inlen != 0)
PumpMore(input) == Len(input) # 0

\* faulty variant: the cursor advances by what was offered, not by what was consumed
ConsumeOffered(input, consumed) == <<>>

\* input += consumed; inlen -= consumed
Consume(input, consumed) == Drop(input, consumed)

\* consumed = inlen; ptls_receive(tls, &decryptbuf, input, &consumed) returned
\* 0: the engine consumed 1..inlen bytes of the span and appended m bytes of
\* plaintext.  The cursor advances, and produced plaintext is handed to
\* write_all(1, ...)
DpReceive ==
    /\ pc = "dp"
    /\ PumpMore(dp.input)
    /\ usedAfter' = Touch
    /\ \E consumed \in 1..Len(dp.input), m \in 0..MaxOut :
          LET out == decryptbuf \o Serial(Len(decryptbuf), m)
              hist == [h EXCEPT !.dpCalls = @ + 1,
                                !.dpProduced = Serial(Len(decryptbuf), m),
                                !.dpUsed = @ \o SubSeq(dp.input, 1, consumed),
                                !.unsealLog = @ \o SubSeq(dp.input, 1, consumed)]
          IN /\ dp' = [dp EXCEPT !.input = Consume(dp.input, consumed)]
             /\ decryptbuf' = out
             /\ IF Len(out) # 0
                   THEN WriteAllCall("stdout", out, "dp_after_write", hist)
                   ELSE pc' = "dp" /\ h' = hist /\ UNCHANGED wa
    /\ UNCHANGED <<errno, tlsFreed, wbufDisposed, wbuf, rbuf, roff, rret, readfds,
                   waRes, dpRes, sockPos, stdinPos, hsSteps>>
    /\ UNCHANGED proc

\* faulty variant: a non-zero status of ptls_receive does not end the loop
DpReceiveErrorContinues ==
    /\ pc = "dp"
    /\ PumpMore(dp.input)
    /\ usedAfter' = Touch
    /\ \E m \in 0..MaxOut :
          /\ decryptbuf' = decryptbuf \o Serial(Len(decryptbuf), m)
          /\ h' = [h EXCEPT !.dpCalls = @ + 1,
                            !.dpProduced = Serial(Len(decryptbuf), m),
                            !.dpEngineErr = TRUE]
    /\ dp' = [dp EXCEPT !.input = Tail(@)]
    /\ UNCHANGED <<pc, errno, tlsFreed, wbufDisposed, wbuf, rbuf, roff, rret,
                   readfds, wa, waRes, dpRes, sockPos, stdinPos, hsSteps>>
    /\ UNCHANGED proc

\* ptls_receive returned a non-zero status (having appended m bytes or
\* nothing to decryptbuf before it failed): return -1
DpReceiveError ==
    /\ pc = "dp"
    /\ PumpMore(dp.input)
    /\ usedAfter' = Touch
    /\ \E m \in 0..MaxOut :
          PumpReturn(0 - 1, [h EXCEPT !.dpCalls = @ + 1,
                                     !.dpProduced = Serial(Len(decryptbuf), m),
                                     !.dpEngineErr = TRUE,
                                     !.dpLeft = Len(decryptbuf) + m])
    /\ UNCHANGED <<errno, tlsFreed, wbufDisposed, wbuf, rbuf, roff, rret, readfds,
                   wa, waRes, sockPos, stdinPos, hsSteps>>
    /\ UNCHANGED proc

\* faulty variant: the buffer is not reset after the write
DpAfterWriteNoReset ==
    /\ pc = "dp_after_write"
    /\ IF waRes # 0
          THEN PumpReturn(0 - 1, [ClearWrite(h) EXCEPT !.dpWriteErr = TRUE,
                                                       !.dpLeft = Len(decryptbuf)])
          ELSE /\ pc' = "dp"
               /\ h' = ClearWrite(h)
               /\ UNCHANGED <<dp, dpRes, decryptbuf>>
    /\ UNCHANGED <<errno, tlsFreed, wbufDisposed, usedAfter, wbuf, rbuf, roff, rret,
                   readfds, wa, waRes, sockPos, stdinPos, hsSteps>>
    /\ UNCHANGED proc

\* if (write_all(1, decryptbuf.base, decryptbuf.off) != 0) return -1;
\* decryptbuf.off = 0
DpAfterWrite ==
    /\ pc = "dp_after_write"
    /\ IF waRes # 0
          THEN PumpReturn(0 - 1, [ClearWrite(h) EXCEPT !.dpWriteErr = TRUE,
                                                       !.dpLeft = Len(decryptbuf)])
          ELSE /\ decryptbuf' = <<>>
               /\ pc' = "dp"
               /\ h' = ClearWrite(h)
               /\ UNCHANGED <<dp, dpRes>>
    /\ UNCHANGED <<errno, tlsFreed, wbufDisposed, usedAfter, wbuf, rbuf, roff, rret,
                   readfds, wa, waRes, sockPos, stdinPos, hsSteps>>
    /\ UNCHANGED proc

\* inlen == 0: return 0
DpReturn ==
    /\ pc = "dp"
    /\ ~PumpMore(dp.input)
    /\ PumpReturn(0, [h EXCEPT !.dpLeft = Len(decryptbuf)])
    /\ UNCHANGED <<errno, tlsFreed, wbufDisposed, usedAfter, wbuf, rbuf, roff, rret,
                   readfds, wa, waRes, sockPos, stdinPos, hsSteps>>
    /\ UNCHANGED proc

\* -------------------------------------------------------- handle_connection

\* the top of the loop up to the call of select:
\* FD_ZERO(&readfds); FD_SET(0, &readfds); FD_SET(fd, &readfds)
LoopTop ==
    /\ pc' = "sel"
    /\ readfds' = Both

\* run_handshake returned 0: write_all(fd, wbuf.base, wbuf.off)
HcFlush ==
    /\ pc = "hc_flush"
    /\ usedAfter' = Touch
    /\ WriteAllCall("sock", wbuf, "hc_after_flush",
                    [h EXCEPT !.hsR = 0, !.hsC = 0, !.hsLast = <<>>])
    /\ UNCHANGED <<errno, tlsFreed, wbufDisposed, wbuf, rbuf, roff, rret, readfds,
                   waRes, dp, dpRes, decryptbuf, sockPos, stdinPos, hsSteps>>
    /\ UNCHANGED proc

\* faulty variant: the loop is entered without the pump run on the leftover
HcAfterFlushNoPump ==
    /\ pc = "hc_after_flush"
    /\ usedAfter' = Touch
    /\ IF waRes # 0
          THEN GotoExit("flush", ClearWrite(h)) /\ UNCHANGED <<wbuf, readfds>>
          ELSE /\ wbuf' = <<>>
               /\ LoopTop
               /\ h' = ClearWrite(h)
    /\ UNCHANGED <<errno, tlsFreed, wbufDisposed, rbuf, roff, rret, wa, waRes, dp,
                   dpRes, decryptbuf, sockPos, stdinPos, hsSteps>>
    /\ UNCHANGED proc

\* if the flush failed goto Exit; wbuf.off = 0;
\* decrypt_and_print(tls, rbuf, roff)
HcAfterFlush ==
    /\ pc = "hc_after_flush"
    /\ usedAfter' = Touch
    /\ IF waRes # 0
          THEN GotoExit("flush", ClearWrite(h)) /\ UNCHANGED <<wbuf, dp, decryptbuf>>
          ELSE /\ wbuf' = <<>>
               /\ PumpCall(Take(rbuf, roff), "hc_after_pending",
                           [ClearWrite(h) EXCEPT !.leftoverRuns = @ + 1])
    /\ UNCHANGED <<errno, tlsFreed, wbufDisposed, rbuf, roff, rret, readfds, wa,
                   waRes, dpRes, sockPos, stdinPos, hsSteps>>
    /\ UNCHANGED proc

\* if the pump failed goto Exit; roff = 0; enter the loop
HcAfterPending ==
    /\ pc = "hc_after_pending"
    /\ IF dpRes # 0
          THEN GotoExit("pending_pump", ClearPump(h)) /\ UNCHANGED <<roff, readfds>>
          ELSE LoopTop /\ roff' = 0 /\ h' = ClearPump(h)
    /\ UNCHANGED <<errno, tlsFreed, wbufDisposed, usedAfter, wbuf, rbuf, rret,
                   wa, waRes, dp, dpRes, decryptbuf, sockPos, stdinPos, hsSteps>>
    /\ UNCHANGED proc

\* faulty variant: the socket is tested before standard input
FirstBranchSocket(ready) == IF "sock" \in ready THEN "sock_read" ELSE "in_read"

\* where a wake goes first: FD_ISSET(0) is tested before FD_ISSET(fd)
FirstBranch(ready) == IF "stdin" \in ready THEN "in_read" ELSE "sock_read"

\* select(...) returned > 0, leaving the ready descriptors in readfds
Select ==
    /\ pc = "sel"
    /\ \E ready \in (SUBSET Both) \ {{}} :
          /\ readfds' = ready
          /\ pc' = FirstBranch(ready)
    /\ h' = [h EXCEPT !.waitFailed = "none"]
    /\ UNCHANGED <<errno, tlsFreed, wbufDisposed, usedAfter, wbuf, rbuf, roff, rret,
                   wa, waRes, dp, dpRes, decryptbuf, sockPos, stdinPos, hsSteps>>
    /\ UNCHANGED proc

\* select(...) returned -1 (interrupted or another error): <= 0, continue
SelectFail ==
    /\ pc = "sel"
    /\ \E e \in {"EINTR", "OTHER"} :
          /\ errno' = e
          /\ h' = [h EXCEPT !.waitFailed = e]
    /\ LoopTop
    /\ UNCHANGED <<tlsFreed, wbufDisposed, usedAfter, wbuf, rbuf, roff, rret, wa,
                   waRes, dp, dpRes, decryptbuf, sockPos, stdinPos, hsSteps>>
    /\ UNCHANGED proc

\* the condition of the read loops of the streaming phase:
\* (rret = read(...)) == 1 && errno == EINTR
ReadAgain(r, e) == r = 1 /\ e = "EINTR"

\* faulty variant: end of input on descriptor 0 ends the session
InReadEofCloses ==
    /\ pc = "in_read"
    /\ \E n \in 0..Min(BufSz, MaxStdin - stdinPos) :
          /\ rbuf' = Store(rbuf, StdinBytes(stdinPos, n))
          /\ stdinPos' = stdinPos + n
          /\ rret' = n
          /\ IF n = 0
                THEN GotoExit("stdin_eof", h)
                ELSE /\ pc' = IF ReadAgain(n, errno) THEN "in_read" ELSE "seal"
                     /\ h' = h
    /\ UNCHANGED <<errno, tlsFreed, wbufDisposed, usedAfter, wbuf, roff, readfds, wa,
                   waRes, dp, dpRes, decryptbuf, sockPos, hsSteps>>
    /\ UNCHANGED proc

\* read(0, rbuf, sizeof(rbuf)) returned n >= 0 (0 is end of input)
InRead ==
    /\ pc = "in_read"
    /\ \E n \in 0..Min(BufSz, MaxStdin - stdinPos) :
          /\ rbuf' = Store(rbuf, StdinBytes(stdinPos, n))
          /\ stdinPos' = stdinPos + n
          /\ rret' = n
          /\ pc' = IF ReadAgain(n, errno) THEN "in_read" ELSE "seal"
    /\ UNCHANGED <<errno, tlsFreed, wbufDisposed, usedAfter, wbuf, roff, readfds, wa,
                   waRes, dp, dpRes, decryptbuf, sockPos, hsSteps, h>>
    /\ UNCHANGED proc

\* read(0, ...) returned -1, interrupted or with another error
InReadFail ==
    /\ pc = "in_read"
    /\ \E e \in {"EINTR", "OTHER"} :
          /\ errno' = e
          /\ rret' = 0 - 1
          /\ pc' = IF ReadAgain(0 - 1, e) THEN "in_read" ELSE "seal"
    /\ UNCHANGED <<tlsFreed, wbufDisposed, usedAfter, wbuf, rbuf, roff, readfds, wa,
                   waRes, dp, dpRes, decryptbuf, sockPos, stdinPos, hsSteps, h>>
    /\ UNCHANGED proc

\* ptls_send(tls, &wbuf, rbuf, rret) with rret >= 0: the engine seals
\* rbuf[0..rret) and appends k bytes of ciphertext; a non-zero status goes to
\* Exit, otherwise write_all(fd, wbuf.base, wbuf.off)
Seal ==
    /\ pc = "seal"
    /\ rret >= 0
    /\ usedAfter' = Touch
    /\ \E status \in {"ok", "error"}, k \in 0..MaxOut :
          LET out == wbuf \o Serial(Len(wbuf), k)
              hist == [h EXCEPT !.sealLog = @ \o Take(rbuf, rret),
                                !.appended = Serial(Len(wbuf), k)]
          IN /\ wbuf' = out
             /\ IF status = "error"
                   THEN GotoExit("seal", hist) /\ UNCHANGED wa
                   ELSE WriteAllCall("sock", out, "in_after_write", hist)
    /\ UNCHANGED <<errno, tlsFreed, wbufDisposed, rbuf, roff, rret, readfds, waRes,
                   dp, dpRes, decryptbuf, sockPos, stdinPos, hsSteps>>
    /\ UNCHANGED proc

\* ptls_send(tls, &wbuf, rbuf, rret) after a failed read: rret is -1 and the
\* size_t parameter receives SIZE_MAX, so the engine reads past the end of
\* rbuf.  The behaviour is undefined: the call fails (goto Exit) or the
\* process dies
SealAfterFailedRead ==
    /\ pc = "seal"
    /\ rret < 0
    /\ usedAfter' = Touch
    /\ LET hist == [h EXCEPT !.sealLog = @ \o Take(rbuf, BufSz)]
       IN \E outcome \in {"error", "crash"} :
             IF outcome = "error"
                THEN GotoExit("seal", hist)
                ELSE pc' = "crashed" /\ h' = [hist EXCEPT !.closedBy = "crash"]
    /\ UNCHANGED <<errno, tlsFreed, wbufDisposed, wbuf, rbuf, roff, rret, readfds,
                   wa, waRes, dp, dpRes, decryptbuf, sockPos, stdinPos, hsSteps>>
    /\ UNCHANGED proc

\* faulty variant: wbuf.off is not reset after the flush
InAfterWriteNoReset ==
    /\ pc = "in_after_write"
    /\ usedAfter' = Touch
    /\ IF waRes # 0
          THEN GotoExit("in_write", ClearWrite(h)) /\ UNCHANGED readfds
          ELSE IF "sock" \in readfds
                  THEN /\ pc' = "sock_read"
                       /\ h' = [ClearWrite(h) EXCEPT !.inputDone = TRUE]
                       /\ UNCHANGED readfds
                  ELSE LoopTop /\ h' = ClearWrite(h)
    /\ UNCHANGED <<errno, tlsFreed, wbufDisposed, wbuf, rbuf, roff, rret, wa, waRes,
                   dp, dpRes, decryptbuf, sockPos, stdinPos, hsSteps>>
    /\ UNCHANGED proc

\* if the flush failed goto Exit; wbuf.off = 0; then if (FD_ISSET(fd, &readfds))
\* the socket branch, else the next iteration
InAfterWrite ==
    /\ pc = "in_after_write"
    /\ usedAfter' = Touch
    /\ IF waRes # 0
          THEN GotoExit("in_write", ClearWrite(h)) /\ UNCHANGED <<wbuf, readfds>>
          ELSE /\ wbuf' = <<>>
               /\ IF "sock" \in readfds
                     THEN /\ pc' = "sock_read"
                          /\ h' = [ClearWrite(h) EXCEPT !.inputDone = TRUE]
                          /\ UNCHANGED readfds
                     ELSE LoopTop /\ h' = ClearWrite(h)
    /\ UNCHANGED <<errno, tlsFreed, wbufDisposed, rbuf, roff, rret, wa, waRes, dp,
                   dpRes, decryptbuf, sockPos, stdinPos, hsSteps>>
    /\ UNCHANGED proc

\* faulty variant: only an error closes the session
SockReadClosesOnError(r) == r < 0

\* if (rret <= 0) goto Exit
SockReadCloses(r) == r <= 0

\* after the socket read stored its result in rret (and errno): read again,
\* goto Exit, or decrypt_and_print(tls, rbuf, rret)
AfterSockRead(r, e, buf) ==
    IF ReadAgain(r, e)
       THEN UNCHANGED <<pc, dp, decryptbuf, h>>
       ELSE IF SockReadCloses(r)
               THEN /\ GotoExit(IF r = 0 THEN "sock_eof"
                                ELSE IF e = "EINTR" THEN "sock_eintr"
                                ELSE "sock_error", h)
                    /\ UNCHANGED <<dp, decryptbuf>>
               ELSE PumpCall(Take(buf, r), "sock_after_pump", h)

\* read(fd, rbuf, sizeof(rbuf)) returned n > 0
SockRead ==
    /\ pc = "sock_read"
    /\ \E n \in 1..Min(BufSz, MaxSock - sockPos) :
          LET buf == Store(rbuf, Serial(sockPos, n))
          IN /\ rbuf' = buf
             /\ sockPos' = sockPos + n
             /\ rret' = n
             /\ AfterSockRead(n, errno, buf)
    /\ UNCHANGED <<errno, tlsFreed, wbufDisposed, usedAfter, wbuf, roff, readfds, wa,
                   waRes, dpRes, stdinPos, hsSteps>>
    /\ UNCHANGED proc

\* read(fd, ...) returned 0 (the peer closed), or -1 interrupted or with
\* another error
SockReadFail ==
    /\ pc = "sock_read"
    /\ \E r \in {"eof", "EINTR", "OTHER"} :
          LET n == IF r = "eof" THEN 0 ELSE 0 - 1
              e == IF r = "eof" THEN errno ELSE r
          IN /\ rret' = n
             /\ errno' = e
             /\ AfterSockRead(n, e, rbuf)
    /\ UNCHANGED <<tlsFreed, wbufDisposed, usedAfter, wbuf, rbuf, roff, readfds, wa,
                   waRes, dpRes, sockPos, stdinPos, hsSteps>>
    /\ UNCHANGED proc

\* if the pump failed goto Exit; otherwise the next iteration of the loop
SockAfterPump ==
    /\ pc = "sock_after_pump"
    /\ IF dpRes # 0
          THEN GotoExit("sock_pump", ClearPump(h)) /\ UNCHANGED readfds
          ELSE LoopTop /\ h' = [ClearPump(h) EXCEPT !.inputDone = FALSE]
    /\ UNCHANGED <<errno, tlsFreed, wbufDisposed, usedAfter, wbuf, rbuf, roff, rret,
                   wa, waRes, dp, dpRes, decryptbuf, sockPos, stdinPos, hsSteps>>
    /\ UNCHANGED proc

\* faulty variant: Exit disposes the buffer and forgets the engine
HcExitLeak ==
    /\ pc = "hc_exit"
    /\ wbufDisposed' = wbufDisposed + 1
    /\ wbuf' = <<>>
    /\ rbuf' = Garbage
    /\ roff' = 0
    /\ rret' = 0
    /\ readfds' = {}
    /\ pc' = "hc_returned"
    /\ h' = [H0 EXCEPT !.closedBy = h.closedBy]
    /\ UNCHANGED <<errno, tlsFreed, usedAfter, wa, waRes, dp, dpRes, decryptbuf,
                   sockPos, stdinPos, hsSteps>>
    /\ UNCHANGED proc

\* Exit: ptls_buffer_dispose(&wbuf); ptls_free(tls); return 0.  The locals of
\* handle_connection die with the frame
HcExit ==
    /\ pc = "hc_exit"
    /\ wbufDisposed' = wbufDisposed + 1
    /\ tlsFreed' = tlsFreed + 1
    /\ wbuf' = <<>>
    /\ rbuf' = Garbage
    /\ roff' = 0
    /\ rret' = 0
    /\ readfds' = {}
    /\ pc' = "hc_returned"
    /\ h' = [H0 EXCEPT !.closedBy = h.closedBy]
    /\ UNCHANGED <<errno, usedAfter, wa, waRes, dp, dpRes, decryptbuf, sockPos,
                   stdinPos, hsSteps>>
    /\ UNCHANGED proc

\* ------------------------------------------------ main, run_server, run_client

\* return 1 from main / exit(1), or return 0
Leave(status, p) ==
    /\ pc' = "exited"
    /\ proc' = [p EXCEPT !.status = status]

\* one turn of the getopt loop: the next option of the command line
MainGetopt ==
    /\ pc = "main"
    /\ proc.argv # <<>>
    /\ LET o == Head(proc.argv)
           p == [proc EXCEPT !.argv = Tail(@)]
       IN  CASE o = "c_ok" -> pc' = pc /\ proc' = [p EXCEPT !.certs = TRUE]
             [] o = "k_ok" -> pc' = pc /\ proc' = [p EXCEPT !.pkey = TRUE]
             [] OTHER -> Leave("exit1", p)
    /\ UNCHANGED <<errno, tlsFreed, wbufDisposed, usedAfter, wbuf, rbuf, roff, rret,
                   readfds, wa, waRes, dp, dpRes, decryptbuf, sockPos, stdinPos,
                   hsSteps, h>>

\* faulty variant: one of -c and -k alone is let through
MainModeUnpaired ==
    /\ pc = "main"
    /\ proc.argv = <<>>
    /\ pc' = "resolve"
    /\ proc' = [proc EXCEPT !.registered = proc.certs \/ proc.pkey]
    /\ UNCHANGED <<errno, tlsFreed, wbufDisposed, usedAfter, wbuf, rbuf, roff, rret,
                   readfds, wa, waRes, dp, dpRes, decryptbuf, sockPos, stdinPos,
                   hsSteps, h>>

\* getopt returned -1: -c and -k must come together; with both, the server
\* identity is registered and certs and pkey are freed.  The pointers keep
\* their values, so certs != NULL stays true afterwards.
MainMode ==
    /\ pc = "main"
    /\ proc.argv = <<>>
    /\ IF proc.certs \/ proc.pkey
         THEN IF ~proc.certs \/ ~proc.pkey
                 THEN Leave("exit1", proc)
                 ELSE pc' = "resolve" /\ proc' = [proc EXCEPT !.registered = TRUE]
         ELSE pc' = "resolve" /\ proc' = proc
    /\ UNCHANGED <<errno, tlsFreed, wbufDisposed, usedAfter, wbuf, rbuf, roff, rret,
                   readfds, wa, waRes, dp, dpRes, decryptbuf, sockPos, stdinPos,
                   hsSteps, h>>

\* host and port are chosen, resolve_address is called, and main calls
\* run_server if certs != NULL and run_client otherwise
MainResolve ==
    /\ pc = "resolve"
    /\ \E r \in {"ok", "fail"} :
          IF r = "fail"
             THEN Leave("exit1", proc)
             ELSE /\ pc' = IF proc.certs THEN "srv_setup" ELSE "cli_socket"
                  /\ proc' = proc
    /\ UNCHANGED <<errno, tlsFreed, wbufDisposed, usedAfter, wbuf, rbuf, roff, rret,
                   readfds, wa, waRes, dp, dpRes, decryptbuf, sockPos, stdinPos,
                   hsSteps, h>>

\* run_server before its loop: socket, setsockopt, bind, listen; the first of
\* them that fails makes run_server return 1
ServerSetup ==
    /\ pc = "srv_setup"
    /\ \E f \in {"none", "socket", "setsockopt", "bind", "listen"} :
          LET p == [proc EXCEPT !.sockets = @ + 1]
          IN  IF f = "none"
                 THEN pc' = "accept" /\ proc' = p /\ errno' = errno
                 ELSE Leave("exit1", p) /\ errno' = "OTHER"
    /\ UNCHANGED <<tlsFreed, wbufDisposed, usedAfter, wbuf, rbuf, roff, rret,
                   readfds, wa, waRes, dp, dpRes, decryptbuf, sockPos, stdinPos,
                   hsSteps, h>>

\* handle_connection is called on a fresh descriptor
StartSession(p) ==
    /\ pc' = "hc_start"
    /\ proc' = [p EXCEPT !.fd = "open", !.closes = 0, !.released = FALSE,
                         !.sessions = @ + 1]
    /\ h' = [H0 EXCEPT !.stdinStart = stdinPos]

\* the session's frame is gone: its locals and the observations made of it
EndSession ==
    /\ tlsFreed' = 0
    /\ wbufDisposed' = 0
    /\ waRes' = 0
    /\ dpRes' = 0
    /\ sockPos' = 0
    /\ hsSteps' = 0
    /\ h' = H0

\* accept returned a descriptor: handle_connection(conn_fd, ctx, NULL)
Accept ==
    /\ pc = "accept"
    /\ proc.sessions < MaxSessions
    /\ StartSession(proc)
    /\ UNCHANGED <<errno, tlsFreed, wbufDisposed, usedAfter, wbuf, rbuf, roff, rret,
                   readfds, wa, waRes, dp, dpRes, decryptbuf, sockPos, stdinPos,
                   hsSteps>>

\* accept returned -1: the loop calls it again
AcceptFail ==
    /\ pc = "accept"
    /\ \E e \in {"EINTR", "OTHER"} : errno' = e
    /\ UNCHANGED <<pc, tlsFreed, wbufDisposed, usedAfter, wbuf, rbuf, roff, rret,
                   readfds, wa, waRes, dp, dpRes, decryptbuf, sockPos, stdinPos,
                   hsSteps, h, proc>>

\* handle_connection returned to run_server: close(conn_fd), then accept again
ServerClose ==
    /\ pc = "hc_returned"
    /\ proc.certs
    /\ proc' = [proc EXCEPT !.fd = "closed", !.closes = @ + 1,
                            !.released = (tlsFreed = 1 /\ wbufDisposed = 1)]
    /\ pc' = "accept"
    /\ EndSession
    /\ UNCHANGED <<errno, usedAfter, wbuf, rbuf, roff, rret, readfds, wa, dp,
                   decryptbuf, stdinPos>>

\* run_client: fd = socket(...), compared with 1.  A failed call returns -1,
\* which the comparison lets through; the descriptor 1 is taken for a failure.
ClientSocket ==
    /\ pc = "cli_socket"
    /\ \E r \in {"fd", "minus1", "one"} :
          LET p == [proc EXCEPT !.sockets = @ + 1]
          IN  CASE r = "one" -> Leave("exit1", p) /\ errno' = errno
                [] r = "fd" -> /\ pc' = "cli_connect"
                               /\ proc' = [p EXCEPT !.fd = "open"]
                               /\ errno' = errno
                [] r = "minus1" -> /\ pc' = "cli_connect"
                                   /\ proc' = [p EXCEPT !.fd = "invalid"]
                                   /\ errno' = "OTHER"
    /\ UNCHANGED <<tlsFreed, wbufDisposed, usedAfter, wbuf, rbuf, roff, rret,
                   readfds, wa, waRes, dp, dpRes, decryptbuf, sockPos, stdinPos,
                   hsSteps, h>>

\* connect(fd, sa, salen): a failure makes run_client return 1; otherwise
\* handle_connection(fd, ctx, "example.com") is called
ClientConnect ==
    /\ pc = "cli_connect"
    /\ \E r \in {"ok", "fail"} :
          IF r = "fail" \/ proc.fd = "invalid"
             THEN /\ Leave("exit1", proc)
                  /\ \E e \in {"EINTR", "OTHER"} : errno' = e
                  /\ h' = h
             ELSE /\ StartSession(proc)
                  /\ errno' = errno
    /\ UNCHANGED <<tlsFreed, wbufDisposed, usedAfter, wbuf, rbuf, roff, rret,
                   readfds, wa, waRes, dp, dpRes, decryptbuf, sockPos, stdinPos,
                   hsSteps>>

\* handle_connection returned to run_client, which returns its value, and
\* main returns it in turn: the process ends without a close(fd)
ClientReturn ==
    /\ pc = "hc_returned"
    /\ ~proc.certs
    /\ Leave("exit0", proc)
    /\ EndSession
    /\ UNCHANGED <<errno, usedAfter, wbuf, rbuf, roff, rret, readfds, wa, dp,
                   decryptbuf, stdinPos>>

Next ==
    \/ MainGetopt
    \/ MainMode
    \/ MainResolve
    \/ ServerSetup
    \/ Accept
    \/ AcceptFail
    \/ ServerClose
    \/ ClientSocket
    \/ ClientConnect
    \/ ClientReturn
    \/ WriteAllWrite
    \/ WriteAllEintr
    \/ WriteAllFail
    \/ WriteAllDone
    \/ HcStart
    \/ HandshakeStep
    \/ HsAfterWrite
    \/ HsRead
    \/ HsReadEintr
    \/ HsReadFail
    \/ HsDone
    \/ DpReceive
    \/ DpReceiveError
    \/ DpAfterWrite
    \/ DpReturn
    \/ HcFlush
    \/ HcAfterFlush
    \/ HcAfterPending
    \/ Select
    \/ SelectFail
    \/ InRead
    \/ InReadFail
    \/ Seal
    \/ SealAfterFailedRead
    \/ InAfterWrite
    \/ SockRead
    \/ SockReadFail
    \/ SockAfterPump
    \/ HcExit

Spec == Init /\ [][Next]_vars

\* ==================================================================== claims

\* the statements write_all returns to, and those the pump returns to
WriteAllSites == {"hs_after_write", "hc_after_flush", "dp_after_write", "in_after_write"}
PumpSites == {"hc_after_pending", "sock_after_pump"}

\* control is inside decrypt_and_print (or in the write_all it called)
InPump == pc \in {"dp", "dp_after_write"} \/ (pc = "wa" /\ wa.site = "dp_after_write")

\* C1: write_all either returns 0 after the descriptor accepted exactly
\* data[0..len), each byte once and in order, or returns -1; at every step the
\* bytes accepted so far are a prefix of data and the next write is offered
\* exactly the not-yet-accepted suffix.
C1_WriteAllExactlyOnce ==
    /\ pc = "wa" => h.waAcc \o wa.data = h.waOrig
    /\ (pc \in WriteAllSites /\ waRes = 0) => h.waAcc = h.waOrig
    /\ (pc \in WriteAllSites /\ waRes # 0) =>
          (IsPrefix(h.waAcc, h.waOrig) /\ h.waAcc # h.waOrig)

\* C1 witness: a call returned 0 after two short writes moved two bytes
C1_Witness ==
    /\ pc \in WriteAllSites
    /\ waRes = 0
    /\ h.waWrites = 2
    /\ Len(h.waOrig) = 2

C3_LeftoverState ==
    pc = "hc_flush" =>
       /\ roff = h.hsR - h.hsC
       /\ Take(rbuf, roff) = SubSeq(h.hsLast, h.hsC + 1, h.hsR)

\* C3: when run_handshake returns success, the pending length is R - C and
\* the first R - C bytes of the scratch buffer are bytes [C, R) of the last
\* read, in order; when C = R the buffer is not shifted.
C3_HandshakeLeftover ==
    /\ []C3_LeftoverState
    /\ [][(pc = "hs_done" /\ h.hsC = h.hsR) => rbuf' = rbuf]_vars

\* C3 witness: the last read returned 3 bytes and the engine consumed 1, so
\* two bytes were shifted to the start of the buffer
C3_Witness ==
    /\ pc = "hc_flush"
    /\ h.hsR = 3
    /\ h.hsC = 1
    /\ roff = 2

\* C4 as stated: after every unsealing call the output buffer is empty before
\* the next call or the pump's return, and what the call produced was
\* written in full and in order to standard output before the reset.
C4_OutputAlwaysReset ==
    /\ pc = "dp" => Len(decryptbuf) = 0
    /\ (pc \in PumpSites /\ h.dpCalls > 0 /\ ~h.dpEngineErr) => h.dpLeft = 0
    /\ (pc = "dp_after_write" /\ waRes = 0) =>
          (h.waFd = "stdout" /\ h.waAcc = h.dpProduced /\ decryptbuf = h.dpProduced)

\* C4 amended: after every unsealing call that returns status 0 the output
\* buffer is empty before the next call or the pump's successful return, and
\* what the call produced was written in full and in order to standard output
\* before the reset; when the write to standard output fails the pump returns
\* failure at once with the buffer not reset.
C4_OutputReset ==
    /\ pc = "dp" => Len(decryptbuf) = 0
    /\ (pc \in PumpSites /\ dpRes = 0) => h.dpLeft = 0
    /\ (pc \in PumpSites /\ h.dpWriteErr) => (dpRes # 0 /\ h.dpLeft > 0)
    /\ (pc = "dp_after_write" /\ waRes = 0) =>
          (h.waFd = "stdout" /\ h.waAcc = h.dpProduced /\ decryptbuf = h.dpProduced)

\* C4 witness: a call produced two bytes, they were written and the buffer was
\* reset, and the pump is about to make its next call
C4_Witness ==
    /\ pc = "dp"
    /\ h.dpCalls = 1
    /\ Len(h.dpProduced) = 2
    /\ Len(dp.input) > 0
    /\ Len(decryptbuf) = 0

\* C5: in Streaming a socket read of 0 bytes closes the session: the next
\* step is Exit, which makes no engine call, read or write, and the engine
\* and the outbound buffer are each released exactly once.
C5_PeerEofCloses ==
    /\ [][(pc = "sock_read" /\ rret' = 0)
             => (pc' = "hc_exit" /\ h'.closedBy = "sock_eof")]_vars
    /\ [][(pc = "hc_exit" /\ h.closedBy = "sock_eof")
             => /\ pc' \in {"hc_exit", "hc_returned"}
                /\ sockPos' = sockPos
                /\ stdinPos' = stdinPos
                /\ ~usedAfter'
                /\ pc' = "hc_returned" => (tlsFreed' = 1 /\ wbufDisposed' = 1)]_vars
    /\ [](h.closedBy = "sock_eof" =>
             /\ pc \in {"hc_exit", "hc_returned"}
             /\ pc = "hc_exit" => (tlsFreed = 0 /\ wbufDisposed = 0)
             /\ pc = "hc_returned" => (tlsFreed = 1 /\ wbufDisposed = 1))

\* C5 witness: the session ended on a socket read of 0 bytes
C5_Witness ==
    /\ pc = "hc_returned"
    /\ h.closedBy = "sock_eof"
    /\ tlsFreed = 1
    /\ wbufDisposed = 1

\* the statements of handle_connection that jump to Exit
ExitReasons ==
    {"handshake", "hs_write", "hs_read", "flush", "pending_pump", "seal", "in_write",
     "sock_eof", "sock_eintr", "sock_error", "sock_pump"}

\* C6: on every path by which handle_connection ends, the outbound buffer is
\* disposed exactly once and the engine is destroyed exactly once, and
\* neither is used after its release.
C6_ReleasedExactlyOnce ==
    /\ ~usedAfter
    /\ pc = "hc_returned" =>
          (tlsFreed = 1 /\ wbufDisposed = 1 /\ h.closedBy \in ExitReasons)
    /\ pc # "hc_returned" => (tlsFreed = 0 /\ wbufDisposed = 0)

\* C6 witness: the session ended on a pump failure in Streaming
C6_Witness ==
    /\ pc = "hc_returned"
    /\ h.closedBy = "sock_pump"
    /\ tlsFreed = 1
    /\ wbufDisposed = 1

\* C7: the plaintext passed to the seal operation is, in order, exactly the
\* bytes the reads of standard input returned, and the ciphertext is written
\* in full to the socket before the next read of standard input.
C7_SealedIsStdin ==
    /\ IsPrefix(h.sealLog, StdinBytes(h.stdinStart, stdinPos - h.stdinStart))
    /\ pc = "sel" => h.sealLog = StdinBytes(h.stdinStart, stdinPos - h.stdinStart)
    /\ pc = "in_read" => Len(wbuf) = 0
    /\ (pc = "in_after_write" /\ waRes = 0) => h.waAcc = wbuf

\* C8: the ciphertext offered to the unsealing operation is, in order, exactly
\* the handshake leftover followed by the bytes of each successful socket
\* read in Streaming.
C8_UnsealedIsSocket ==
    /\ IsPrefix(h.unsealLog, Serial(h.appStart, sockPos - h.appStart))
    /\ pc = "sel" => h.unsealLog = Serial(h.appStart, sockPos - h.appStart)

\* C9: a socket read interrupted by a signal is retried and does not close
\* the session.
C9_InterruptedSocketReadRetried == h.closedBy # "sock_eintr"

\* C10: the length passed to the seal operation is the byte count of a
\* completed read, between 0 and the capacity of the scratch buffer.
C10_SealLengthIsReadCount == pc = "seal" => rret \in 0..BufSz

\* C11: a failure of select that is not an interrupt closes the session
\* instead of waiting again; only an interrupted wait is retried.
C11_WaitFailureCloses ==
    h.waitFailed = "OTHER" => pc = "hc_exit"

\* C12: when an unsealing call of the pump returns a non-zero status, the pump
\* returns -1 at once: no further unsealing call and no write to standard
\* output follow in that run, and the caller's next step is Exit, from the
\* handshake-to-streaming transition and from the socket-ready branch alike.
C12_UnsealFailureCloses ==
    /\ [](h.dpEngineErr =>
             /\ pc \in PumpSites
             /\ dpRes = 0 - 1
             /\ dp = NoPump
             /\ h.waFd = "none")
    /\ [][(pc = "dp" /\ h'.dpEngineErr)
             => (pc' \in PumpSites /\ h'.dpCalls = h.dpCalls + 1)]_vars
    /\ [][h.dpEngineErr
             => /\ pc' = "hc_exit"
                /\ h'.closedBy = (IF pc = "hc_after_pending" THEN "pending_pump"
                                                             ELSE "sock_pump")]_vars

\* C12 witness: in the socket-ready branch the second unsealing call of a run
\* failed after producing plaintext, and the pump has returned -1
C12_Witness ==
    /\ pc = "sock_after_pump"
    /\ h.dpEngineErr
    /\ h.dpCalls = 2
    /\ Len(h.dpProduced) > 0
    /\ dpRes = 0 - 1

\* C13: in server mode connections are served one after the other: while a
\* session runs its descriptor is the one open connection, accept is called
\* again only after the session has ended (engine and buffer released) and
\* its descriptor has been closed, and however a session ends the process
\* goes on to accept and does not terminate.
C13_ServerSequential ==
    (proc.registered /\ proc.sessions > 0) =>
        /\ pc \notin {"crashed", "exited"}
        /\ pc = "accept" =>
              (proc.fd = "closed" /\ proc.closes = 1 /\ proc.released)
        /\ pc # "accept" => (proc.fd = "open" /\ proc.closes = 0)

\* C14: the descriptor handed to a session is closed exactly once when the
\* session ends, in server mode and in client mode, and only after the
\* outbound buffer and the engine have been released.
C14_DescriptorClosedOnce ==
    /\ proc.closes <= 1
    /\ (proc.sessions > 0 /\ pc \in {"accept", "exited"}) =>
          (proc.fd = "closed" /\ proc.closes = 1 /\ proc.released)
    /\ pc \notin {"accept", "exited"} => proc.closes = 0

\* C15: run_server is entered only when -c and -k were both given and both
\* loaded, run_client only when neither was given, and whenever the options
\* are past the pairing test the choice between the two is made by exactly
\* that; with one of the two alone the process ends with status 1 having
\* made no socket call and started no session.
C15_ModeSelection ==
    /\ pc \in {"srv_setup", "accept"} =>
          (proc.given = {"c", "k"} /\ proc.certs /\ proc.pkey /\ proc.registered)
    /\ pc \in {"cli_socket", "cli_connect"} =>
          (proc.given = {} /\ ~proc.certs /\ ~proc.pkey)
    /\ pc = "resolve" =>
          /\ proc.given \in {{}, {"c", "k"}}
          /\ proc.certs <=> proc.given = {"c", "k"}
    /\ proc.sockets > 0 => (proc.registered <=> proc.given = {"c", "k"})
    /\ Cardinality(proc.given) = 1 =>
          /\ pc \in {"main", "exited"}
          /\ pc = "exited" => proc.status = "exit1"
          /\ proc.sockets = 0
          /\ proc.sessions = 0

\* C15 witness: both options loaded and the server is at its accept loop
C15_Witness ==
    /\ pc = "accept"
    /\ proc.given = {"c", "k"}
    /\ proc.registered
    /\ proc.sockets = 1
    /\ proc.sessions = 0

\* the session is in the loop of handle_connection
InStreaming ==
    \/ pc \in {"sel", "in_read", "seal", "in_after_write", "sock_read",
                "sock_after_pump"}
    \/ (pc = "wa" /\ wa.site = "in_after_write")
    \/ (InPump /\ dp.site = "sock_after_pump")

\* the pump run on the handshake leftover is under way or has just returned
InLeftoverPump == (InPump /\ dp.site = "hc_after_pending") \/ pc = "hc_after_pending"

\* C16: after run_handshake succeeds the pending handshake bytes are written
\* in full to the socket and wbuf is reset, then the pump runs over the
\* leftover, and only then is select called for the first time; the leftover
\* is what the pump is given, once, and the socket is not read in between.
C16_AfterHandshakeOrder ==
    /\ (pc = "hc_flush" \/ (pc = "wa" /\ wa.site = "hc_after_flush")
                        \/ pc = "hc_after_flush") =>
          /\ h.leftoverRuns = 0
          /\ sockPos = h.appStart + roff
          /\ Take(rbuf, roff) = Serial(h.appStart, roff)
    /\ (pc = "hc_after_flush" /\ waRes = 0) =>
          (h.waFd = "sock" /\ h.waAcc = wbuf)
    /\ InLeftoverPump =>
          /\ h.leftoverRuns = 1
          /\ wbuf = <<>>
          /\ h.dpSpan = Serial(h.appStart, roff)
          /\ sockPos = h.appStart + roff
    /\ InStreaming => h.leftoverRuns = 1

\* C16 witness: two bytes were left over by the handshake, the pump has run
\* over both of them and returned 0, and select has not been called yet
C16_Witness ==
    /\ pc = "hc_after_pending"
    /\ dpRes = 0
    /\ Len(h.dpSpan) = 2
    /\ h.dpUsed = h.dpSpan
    /\ h.leftoverRuns = 1
    /\ wbuf = <<>>

\* the standard-input branch of a wake is running
InInputBranch ==
    pc \in {"in_read", "seal", "in_after_write"}
        \/ (pc = "wa" /\ wa.site = "in_after_write")

\* the socket branch of a wake is running
InSocketBranch ==
    pc \in {"sock_read", "sock_after_pump"} \/ (InPump /\ dp.site = "sock_after_pump")

\* C17: a wake tests standard input first and the socket second, each branch
\* running only if its descriptor is set; with both set, the socket branch
\* runs after the input branch has sealed and flushed, in the same wake:
\* from the successful flush the next step is the socket read, not select.
C17_BranchOrder ==
    /\ [](InInputBranch => ("stdin" \in readfds /\ ~h.inputDone))
    /\ [](InSocketBranch =>
             ("sock" \in readfds /\ (h.inputDone <=> "stdin" \in readfds)))
    /\ [][(pc = "sel" /\ pc' # "sel")
             => pc' = (IF "stdin" \in readfds' THEN "in_read" ELSE "sock_read")]_vars
    /\ [][(pc = "in_after_write" /\ waRes = 0)
             => /\ wbuf' = <<>>
                /\ pc' = (IF "sock" \in readfds THEN "sock_read" ELSE "sel")
                /\ pc' = "sock_read" => readfds' = readfds]_vars

\* C17 witness: both descriptors were ready, the input branch has sealed and
\* flushed two bytes of input, and the socket read of the same wake is next
C17_Witness ==
    /\ pc = "sock_read"
    /\ readfds = Both
    /\ h.inputDone
    /\ rret = 2
    /\ Len(h.sealLog) = 2
    /\ wbuf = <<>>

\* C18: on an in-progress handshake step the driver writes all of wbuf to the
\* socket and resets it before the blocking read, hands the count of that
\* read to the next step, reads again when the read is interrupted, and
\* leaves with failure when the write fails or the read returns a
\* non-positive result that is not an interrupt.
C18_HandshakeStepOrder ==
    /\ []((pc = "hs_after_write" /\ waRes = 0) =>
             (h.waFd = "sock" /\ h.waAcc = wbuf))
    /\ [](pc = "hs_read" => wbuf = <<>>)
    /\ []((pc = "hs_step" /\ hsSteps > 0) =>
             /\ rret > 0
             /\ roff = rret
             /\ h.hsR = rret
             /\ Take(rbuf, roff) = h.hsLast)
    /\ [][pc = "hs_after_write"
             => IF waRes = 0
                   THEN pc' = "hs_read" /\ wbuf' = <<>> /\ sockPos' = sockPos
                   ELSE pc' = "hc_exit" /\ h'.closedBy = "hs_write"]_vars
    /\ [][(pc = "hs_read" /\ rret' = 0 - 1 /\ errno' = "EINTR")
             => (pc' = "hs_read" /\ sockPos' = sockPos)]_vars
    /\ [][(pc = "hs_read" /\ rret' <= 0 /\ ~(rret' = 0 - 1 /\ errno' = "EINTR"))
             => (pc' = "hc_exit" /\ h'.closedBy = "hs_read")]_vars

\* C18 witness: after an in-progress step whose output was flushed, the read
\* returned two bytes and the next step is about to be given them
C18_Witness ==
    /\ pc = "hs_step"
    /\ hsSteps = 1
    /\ rret = 2
    /\ roff = 2
    /\ wbuf = <<>>
    /\ errno = "EINTR"

\* the caller of write_all(fd, wbuf.base, wbuf.off) is about to test its result
AtFlushResult == pc \in {"hs_after_write", "hc_after_flush", "in_after_write"}

\* C19: wbuf is empty at every call of select and at every call of ptls_send
\* (and of ptls_handshake), because each successful flush to the socket is
\* followed by the reset; what a successful flush has put on the socket is
\* therefore exactly what the one engine call before it appended, and no byte
\* goes to the socket twice.
C19_OutboundEmptyAtWaitAndSeal ==
    /\ pc \in {"sel", "in_read", "seal", "hs_step", "hs_read"} => wbuf = <<>>
    /\ InSocketBranch => wbuf = <<>>
    /\ AtFlushResult => wbuf = h.appended
    /\ (AtFlushResult /\ waRes = 0) =>
          (h.waFd = "sock" /\ h.waAcc = h.appended)

\* C19 witness: the second seal of a session appended two bytes to an empty
\* wbuf and the flush has put exactly those two on the socket
C19_Witness ==
    /\ pc = "in_after_write"
    /\ waRes = 0
    /\ Len(h.sealLog) = 2
    /\ rret = 1
    /\ Len(h.appended) = 2
    /\ h.waAcc = h.appended

\* C20: a read of 0 bytes from standard input does not close the session:
\* the next step is ptls_send with a length of 0, which passes no plaintext;
\* if that call returns 0 its output is flushed to the socket, and after a
\* flush that returned 0 the session is still in the loop, at the socket
\* read or at select; a socket read of 0 bytes in that same wake then goes
\* to Exit.  Only the engine's status or a failed flush ends the session in
\* this branch.
C20_StdinEofKeepsSession ==
    /\ [][(pc = "in_read" /\ rret' = 0)
             => (pc' = "seal" /\ wbuf' = <<>> /\ h'.closedBy = "none")]_vars
    /\ [][(pc = "seal" /\ rret = 0)
             => /\ h'.sealLog = h.sealLog
                /\ \/ pc' = "wa" /\ wa'.fd = "sock" /\ wa'.data = h'.appended
                   \/ pc' = "hc_exit" /\ h'.closedBy = "seal"]_vars
    /\ []((pc = "in_after_write" /\ rret = 0 /\ waRes = 0)
             => h.waAcc = h.appended)
    /\ [][(pc = "in_after_write" /\ rret = 0)
             => IF waRes = 0
                   THEN pc' \in {"sock_read", "sel"} /\ h'.closedBy = "none"
                   ELSE pc' = "hc_exit" /\ h'.closedBy = "in_write"]_vars
    /\ [][(pc = "sock_read" /\ h.inputDone /\ rret = 0 /\ rret' = 0)
             => (pc' = "hc_exit" /\ h'.closedBy = "sock_eof")]_vars

\* C20 witness: standard input returned 0 bytes, the seal of the empty input
\* appended two bytes and the flush has put them on the socket
C20_Witness ==
    /\ pc = "in_after_write"
    /\ rret = 0
    /\ waRes = 0
    /\ Len(h.appended) = 2
    /\ h.waAcc = h.appended
    /\ h.closedBy = "none"

====
